---------------------------- MODULE Spec2Model ----------------------------
(***************************************************************************)
(* A model of src/src/main.rs: an L-system generator.  The program builds *)
(* a LindenmeyerSystem, rewrites its axiom for a number of generations,    *)
(* walks the resulting string as turtle-graphics commands that append to   *)
(* an SVG path, and finally writes one SVG document to standard output.    *)
(*                                                                         *)
(* Strings are sequences of one-character strings.  f32 values that hold   *)
(* angles are integers counting units of 2^-FracBits; f32 values returned  *)
(* by cos and sin are records [m, e] standing for m * 2^e.  Both keep the  *)
(* 24-bit significand of f32 and round to nearest, ties to even.           *)
(***************************************************************************)
EXTENDS Integers, Sequences, FiniteSets, TLC

\* ---------------------------------------------------------------- bounds

\* Largest generation count the rewriter is run with.
MaxGen == 2

\* Longest axiom of the systems that exercise the walk.
MaxLen == 3

\* Longest replacement string of the systems that exercise the rewriter.
MaxRhs == 2

\* Longest axiom of the systems that exercise the rewriter.
MaxAxiom == 1

\* The most calls of read_line a run makes.
MaxReads == 2

\* ------------------------------------------------------------ f32 numbers

\* Bits of an f32 significand.
MantissaBits == 24

\* An angle is stored as an integer number of 2^-FracBits.
FracBits == 25

\* std::f32::consts::PI (0x40490FDB = 13176795 * 2^-22) in units of 2^-25.
PI == 105414360

\* F applied to the value of v, taken once.
Bind(v, F(_)) == CHOOSE r \in {F(x) : x \in {v}} : TRUE

Pow2(n) == 2^n

Abs(x) == IF x < 0 THEN -x ELSE x

Sign(x) == IF x < 0 THEN -1 ELSE 1

\* How many low bits a magnitude has beyond an f32 significand.
RECURSIVE Excess(_)
Excess(a) == IF a < Pow2(MantissaBits) THEN 0 ELSE 1 + Excess(a \div 2)

\* n / d rounded to the nearest integer, ties to the even one (d > 0).
RoundDiv(n, d) ==
    LET a == Abs(n)
        q == a \div d
        r == a % d
        up == (2 * r > d) \/ (2 * r = d /\ q % 2 = 1)
    IN  Sign(n) * (IF up THEN q + 1 ELSE q)

\* The f32 nearest to an exact value given in units of 2^-FracBits.
F32Round(s) ==
    Bind(Excess(Abs(s)), LAMBDA k : RoundDiv(s, Pow2(k)) * Pow2(k))

\* f32 + f32 and f32 - f32.
F32Add(x, y) == Bind(x + y, F32Round)

F32Sub(x, y) == Bind(x - y, F32Round)

\* f32 * small integer constant and f32 / small integer constant.
F32MulInt(x, n) == F32Round(x * n)

F32DivInt(x, n) ==
    LET k == Excess(Abs(x) \div n)
    IN  RoundDiv(x, n * Pow2(k)) * Pow2(k)

\* An f32 as an integer when it is one: `length as f32`.
F32OfInt(n) == [m |-> n, e |-> 0]

\* f32 * f32 for values m * 2^e: the exact product, rounded to a significand.
F32Mul(x, y) ==
    Bind(x.m * y.m,
         LAMBDA p :
           Bind(Excess(Abs(p)),
                LAMBDA k : [m |-> RoundDiv(p, Pow2(k)), e |-> x.e + y.e + k]))

\* `f as isize`: truncation toward zero.
AsIsize(f) ==
    IF f.e >= 0 THEN f.m * Pow2(f.e)
    ELSE IF -f.e > MantissaBits THEN 0
    ELSE Sign(f.m) * (Abs(f.m) \div Pow2(-f.e))

\* f32::cos and f32::sin at every angle at which the walks of this model take
\* a Forward step: <<angle, cos(angle), sin(angle)>>, each result the f32
\* nearest to the exact cosine or sine of the f32 angle.
CosSinTable == {
    <<-368950240, [m |-> -10205815, e |-> -45], [m |-> 1, e |-> 0]>>,
    <<-316243072, [m |-> -1, e |-> 0], [m |-> 6713111, e |-> -48]>>,
    <<-263535904, [m |-> -11884093, e |-> -45], [m |-> -1, e |-> 0]>>,
    <<-263535888, [m |-> 4893123, e |-> -45], [m |-> -1, e |-> 0]>>,
    <<-210828720, [m |-> 1, e |-> 0], [m |-> -6151831, e |-> -45]>>,
    <<-158121536, [m |-> 6713111, e |-> -49], [m |-> 1, e |-> 0]>>,
    <<-140552464, [m |-> -8388613, e |-> -24], [m |-> 3632373, e |-> -22]>>,
    <<-122983408, [m |-> -14529497, e |-> -24], [m |-> 16777209, e |-> -25]>>,
    <<-105414360, [m |-> -1, e |-> 0], [m |-> 6151831, e |-> -46]>>,
    <<-105414352, [m |-> -1, e |-> 0], [m |-> -10625385, e |-> -46]>>,
    <<-102486176, [m |-> -16713373, e |-> -24], [m |-> -1462233, e |-> -24]>>,
    <<-87845296, [m |-> -14529495, e |-> -24], [m |-> -8388609, e |-> -24]>>,
    <<-73204416, [m |-> -1202877, e |-> -21], [m |-> -6871545, e |-> -23]>>,
    <<-70276240, [m |-> -8388609, e |-> -24], [m |-> -14529495, e |-> -24]>>,
    <<-58563536, [m |-> -2913335, e |-> -24], [m |-> -4130583, e |-> -22]>>,
    <<-58563532, [m |-> -11653333, e |-> -26], [m |-> -4130583, e |-> -22]>>,
    <<-52707188, [m |-> -4963283, e |-> -44], [m |-> -1, e |-> 0]>>,
    <<-52707180, [m |-> -6151831, e |-> -47], [m |-> -1, e |-> 0]>>,
    <<-52707172, [m |-> 3425325, e |-> -44], [m |-> -1, e |-> 0]>>,
    <<-43922652, [m |-> 8684523, e |-> -25], [m |-> -16205547, e |-> -24]>>,
    <<-35138120, [m |-> 16777215, e |-> -25], [m |-> -1816187, e |-> -21]>>,
    <<-29281768, [m |-> 5392093, e |-> -23], [m |-> -6426047, e |-> -23]>>,
    <<-17569060, [m |-> 14529495, e |-> -24], [m |-> -1, e |-> -1]>>,
    <<-14640884, [m |-> 15205321, e |-> -24], [m |-> -14180717, e |-> -25]>>,
    <<-8, [m |-> 1, e |-> 0], [m |-> -1, e |-> -22]>>,
    <<0, [m |-> 1, e |-> 0], [m |-> 0, e |-> 0]>>,
    <<8, [m |-> 1, e |-> 0], [m |-> 1, e |-> -22]>>,
    <<14640880, [m |-> 7602661, e |-> -23], [m |-> 14180713, e |-> -25]>>,
    <<14640884, [m |-> 15205321, e |-> -24], [m |-> 14180717, e |-> -25]>>,
    <<17569060, [m |-> 14529495, e |-> -24], [m |-> 1, e |-> -1]>>,
    <<29281764, [m |-> 10784187, e |-> -24], [m |-> 3213023, e |-> -22]>>,
    <<29281768, [m |-> 5392093, e |-> -23], [m |-> 6426047, e |-> -23]>>,
    <<35138120, [m |-> 16777215, e |-> -25], [m |-> 1816187, e |-> -21]>>,
    <<43922648, [m |-> 8684527, e |-> -25], [m |-> 8102773, e |-> -23]>>,
    <<43922652, [m |-> 8684523, e |-> -25], [m |-> 16205547, e |-> -24]>>,
    <<52707156, [m |-> 11813933, e |-> -44], [m |-> 1, e |-> 0]>>,
    <<52707172, [m |-> 3425325, e |-> -44], [m |-> 1, e |-> 0]>>,
    <<52707180, [m |-> -6151831, e |-> -47], [m |-> 1, e |-> 0]>>,
    <<52707188, [m |-> -4963283, e |-> -44], [m |-> 1, e |-> 0]>>,
    <<58563532, [m |-> -11653333, e |-> -26], [m |-> 4130583, e |-> -22]>>,
    <<58563536, [m |-> -2913335, e |-> -24], [m |-> 4130583, e |-> -22]>>,
    <<70276240, [m |-> -8388609, e |-> -24], [m |-> 14529495, e |-> -24]>>,
    <<73204416, [m |-> -1202877, e |-> -21], [m |-> 6871545, e |-> -23]>>,
    <<87845296, [m |-> -14529495, e |-> -24], [m |-> 8388609, e |-> -24]>>,
    <<105414336, [m |-> -1, e |-> 0], [m |-> 5522477, e |-> -43]>>,
    <<105414352, [m |-> -1, e |-> 0], [m |-> 10625385, e |-> -46]>>,
    <<105414360, [m |-> -1, e |-> 0], [m |-> -6151831, e |-> -46]>>,
    <<105414368, [m |-> -1, e |-> 0], [m |-> -2866131, e |-> -43]>>,
    <<122983408, [m |-> -14529497, e |-> -24], [m |-> -16777209, e |-> -25]>>,
    <<140552464, [m |-> -8388613, e |-> -24], [m |-> -3632373, e |-> -22]>>,
    <<158121520, [m |-> -16357647, e |-> -45], [m |-> -1, e |-> 0]>>,
    <<158121536, [m |-> 6713111, e |-> -49], [m |-> -1, e |-> 0]>>,
    <<158121552, [m |-> 8598393, e |-> -44], [m |-> -1, e |-> 0]>>,
    <<210828704, [m |-> 1, e |-> 0], [m |-> -10625385, e |-> -45]>>,
    <<210828720, [m |-> 1, e |-> 0], [m |-> 6151831, e |-> -45]>>,
    <<210828736, [m |-> 1, e |-> 0], [m |-> 2866131, e |-> -42]>>,
    <<263535888, [m |-> 4893123, e |-> -45], [m |-> 1, e |-> 0]>>,
    <<263535904, [m |-> -11884093, e |-> -45], [m |-> 1, e |-> 0]>>,
    <<263535920, [m |-> -14330655, e |-> -44], [m |-> 1, e |-> 0]>>,
    <<316243072, [m |-> -1, e |-> 0], [m |-> -6713111, e |-> -48]>>,
    <<316243104, [m |-> -1, e |-> 0], [m |-> -8598393, e |-> -43]>>,
    <<368950240, [m |-> -10205815, e |-> -45], [m |-> -1, e |-> 0]>>,
    <<368950272, [m |-> 2918577, e |-> -42], [m |-> -1, e |-> 0]>>,
    <<421657408, [m |-> 1, e |-> 0], [m |-> -10625385, e |-> -44]>>,
    <<421657440, [m |-> 1, e |-> 0], [m |-> 6151831, e |-> -44]>>,
    <<474364576, [m |-> 8073931, e |-> -43], [m |-> 1, e |-> 0]>>,
    <<474364608, [m |-> -5034833, e |-> -47], [m |-> 1, e |-> 0]>>,
    <<527071744, [m |-> -1, e |-> 0], [m |-> 10835169, e |-> -43]>>,
    <<527071776, [m |-> -1, e |-> 0], [m |-> 4893123, e |-> -44]>>,
    <<579778944, [m |-> -650975, e |-> -40], [m |-> -1, e |-> 0]>>,
    <<632486144, [m |-> 1, e |-> 0], [m |-> 6713111, e |-> -47]>>,
    <<685193344, [m |-> -6046939, e |-> -43], [m |-> 1, e |-> 0]>>,
    <<737900544, [m |-> -1, e |-> 0], [m |-> -2918577, e |-> -41]>>,
    <<790607744, [m |-> 8650839, e |-> -42], [m |-> -1, e |-> 0]>>,
    <<843314944, [m |-> 1, e |-> 0], [m |-> 2866131, e |-> -40]>>,
    <<896022144, [m |-> -223097, e |-> -36], [m |-> 1, e |-> 0]>>
}

\* The row of the table for each of its angles.
CosSinAt == [a \in {t[1] : t \in CosSinTable} |-> CHOOSE t \in CosSinTable : t[1] = a]

Cos(angle) == CosSinAt[angle][2]

Sin(angle) == CosSinAt[angle][3]

\* fn get_vector(angle: f32, length: isize) -> (isize, isize)
get_vector(angle, length) ==
    Bind(<<F32OfInt(length), Cos(angle), Sin(angle)>>,
         LAMBDA f : <<Bind(F32Mul(f[1], f[2]), AsIsize), Bind(F32Mul(f[1], f[3]), AsIsize)>>)

\* The step length main passes to get_vector.
StepLength == 10

\* ------------------------------------------------------------ the systems

\* enum Action
Action == {"DecrementAngle", "Forward", "IncrementAngle", "None", "Pop", "Push"}

\* enum LindenmeyerSystemPreset
LindenmeyerSystemPreset == {"HeighwayDragon", "Plant", "Tree"}

\* The actions and rules from_preset inserts for HeighwayDragon.
HeighwayDragonActions ==
    ("F" :> "Forward") @@ ("G" :> "Forward")
    @@ ("+" :> "IncrementAngle") @@ ("-" :> "DecrementAngle")

HeighwayDragonRules ==
    ("F" :> <<"F", "+", "G">>) @@ ("G" :> <<"F", "-", "G">>)
    @@ ("+" :> <<"+">>) @@ ("-" :> <<"-">>)

\* The actions and rules from_preset inserts for Plant.
PlantActions ==
    ("X" :> "None") @@ ("F" :> "Forward")
    @@ ("+" :> "IncrementAngle") @@ ("-" :> "DecrementAngle")
    @@ ("[" :> "Push") @@ ("]" :> "Pop")

\* PlantRules with the entry for "[" forgotten.
PlantRules_incomplete ==
    ("X" :> <<"F", "+", "[", "[", "X", "]", "-", "X", "]", "-",
              "F", "[", "-", "F", "X", "]", "+", "X">>)
    @@ ("F" :> <<"F", "F">>)
    @@ ("+" :> <<"+">>) @@ ("-" :> <<"-">>)
    @@ ("]" :> <<"]">>)

PlantRules ==
    ("X" :> <<"F", "+", "[", "[", "X", "]", "-", "X", "]", "-",
              "F", "[", "-", "F", "X", "]", "+", "X">>)
    @@ ("F" :> <<"F", "F">>)
    @@ ("+" :> <<"+">>) @@ ("-" :> <<"-">>)
    @@ ("[" :> <<"[">>) @@ ("]" :> <<"]">>)

\* The actions and rules from_preset inserts for Tree.
TreeActions ==
    ("0" :> "Forward") @@ ("1" :> "Forward")
    @@ ("l" :> "IncrementAngle") @@ ("r" :> "DecrementAngle")
    @@ ("[" :> "Push") @@ ("]" :> "Pop")

\* TreeRules with the two brackets of the rule for "0" exchanged.
TreeRules_unbalanced ==
    ("0" :> <<"1", "]", "l", "0", "[", "r", "0">>) @@ ("1" :> <<"1", "1">>)
    @@ ("l" :> <<"l">>) @@ ("r" :> <<"r">>)
    @@ ("[" :> <<"[">>) @@ ("]" :> <<"]">>)

\* TreeRules with the closing bracket of the rule for "0" left out.
TreeRules_unclosed ==
    ("0" :> <<"1", "[", "l", "0", "r", "0">>) @@ ("1" :> <<"1", "1">>)
    @@ ("l" :> <<"l">>) @@ ("r" :> <<"r">>)
    @@ ("[" :> <<"[">>) @@ ("]" :> <<"]">>)

TreeRules ==
    ("0" :> <<"1", "[", "l", "0", "]", "r", "0">>) @@ ("1" :> <<"1", "1">>)
    @@ ("l" :> <<"l">>) @@ ("r" :> <<"r">>)
    @@ ("[" :> <<"[">>) @@ ("]" :> <<"]">>)

\* recommended_generations with the counts of Plant and Tree exchanged.
recommended_generations_swapped(preset) ==
    CASE preset = "HeighwayDragon" -> 16
      [] preset = "Plant" -> 7
      [] preset = "Tree" -> 6

\* LindenmeyerSystem::recommended_generations
recommended_generations(preset) ==
    CASE preset = "HeighwayDragon" -> 16
      [] preset = "Plant" -> 6
      [] preset = "Tree" -> 7

\* LindenmeyerSystem::from_preset
from_preset(preset) ==
    CASE preset = "HeighwayDragon" ->
           [actions |-> HeighwayDragonActions,
            angle_delta |-> F32DivInt(PI, 2),
            axiom |-> <<"F">>,
            rules |-> HeighwayDragonRules]
      [] preset = "Plant" ->
           [actions |-> PlantActions,
            angle_delta |-> F32DivInt(F32MulInt(PI, 5), 36),
            axiom |-> <<"X">>,
            rules |-> PlantRules]
      [] preset = "Tree" ->
           [actions |-> TreeActions,
            angle_delta |-> F32DivInt(PI, 6),
            axiom |-> <<"0">>,
            rules |-> TreeRules]

\* Every string over an alphabet of at most n symbols.
StringsUpTo(alphabet, n) == UNION {[1..k -> alphabet] : k \in 0..n}

\* Systems that exercise the walk: one symbol per Action, and "?" which has
\* no entry in actions; angle_delta is 0 or PI / 2.
WalkActions ==
    ("F" :> "Forward") @@ ("+" :> "IncrementAngle") @@ ("-" :> "DecrementAngle")
    @@ ("[" :> "Push") @@ ("]" :> "Pop") @@ ("X" :> "None")

WalkSystems ==
    {[actions |-> WalkActions,
      angle_delta |-> d,
      axiom |-> ax,
      rules |-> [c \in DOMAIN WalkActions |-> <<c>>]] :
        ax \in StringsUpTo(DOMAIN WalkActions \cup {"?"}, MaxLen),
        d \in {0, F32DivInt(PI, 2)}}

\* Systems that exercise the rewriter: every rules mapping over {a, b} whose
\* replacements have at most MaxRhs symbols, an entry being possibly absent.
RuleMaps ==
    LET rhs == StringsUpTo({"a", "b"}, MaxRhs)
    IN  UNION {[dom -> rhs] : dom \in SUBSET {"a", "b"}}

RewriteSystems ==
    {[actions |-> ("a" :> "Forward") @@ ("b" :> "None"),
      angle_delta |-> 0,
      axiom |-> ax,
      rules |-> r] :
        ax \in StringsUpTo({"a", "b"}, MaxAxiom), r \in RuleMaps}

\* The systems of the push/pop round trip: "A[B]C" and "AC", A, B and C being
\* Forward, with a zero angle_delta.
RoundTripActions ==
    ("A" :> "Forward") @@ ("B" :> "Forward") @@ ("C" :> "Forward")
    @@ ("[" :> "Push") @@ ("]" :> "Pop")

RoundTripSystems ==
    {[actions |-> RoundTripActions,
      angle_delta |-> 0,
      axiom |-> ax,
      rules |-> [c \in DOMAIN RoundTripActions |-> <<c>>]] :
        ax \in {<<"A", "[", "B", "]", "C">>, <<"A", "C">>}}

\* ------------------------------------------------------------ the dialogue

\* The four lines main prints to standard error before it reads.
Prompt ==
    <<"select a preset by pressing its character:",
      "\t[h] Heighway Dragon",
      "\t[p] Plant",
      "\t[t] Tree">>

\* The white space str::trim removes, as far as the lines below have it.
WhiteSpace == {" ", "\t", "\r", "\n"}

RECURSIVE trim_start(_)
trim_start(s) ==
    IF s # <<>> /\ Head(s) \in WhiteSpace THEN trim_start(Tail(s)) ELSE s

RECURSIVE trim_end(_)
trim_end(s) ==
    IF s # <<>> /\ s[Len(s)] \in WhiteSpace
    THEN trim_end(SubSeq(s, 1, Len(s) - 1))
    ELSE s

\* str::trim: the string without its leading and trailing white space.
trim(s) == trim_end(trim_start(s))

\* The arms "h", "p" and "t" of the match on the trimmed buffer.
PresetKeys ==
    (<<"h">> :> "HeighwayDragon") @@ (<<"p">> :> "Plant") @@ (<<"t">> :> "Tree")

\* What one call of read_line can append to the buffer: a line with its
\* newline, a last line without one, or nothing at the end of the input.
StdinLines ==
    {<<"h", "\n">>, <<" ", "p", " ", "\n">>, <<"t">>, <<"\t", "t", "\r", "\n">>,
     <<"x", "\n">>, <<"h", "p", "\n">>, <<"\n">>, <<>>}

\* input_buffer.clear() left out: the buffer keeps what was read.
clear_keep(buffer) == buffer

\* input_buffer.clear()
clear(buffer) == <<>>

\* The line that selects a preset, for a run that starts after the dialogue.
KeyLine(sel) ==
    CASE sel = "HeighwayDragon" -> <<"h", "\n">>
      [] sel = "Plant" -> <<"p", "\n">>
      [] sel = "Tree" -> <<"t", "\n">>
      [] OTHER -> <<>>

\* What a run starts from: the selection, the system and the generation count.
Inputs ==
    {[selection |-> p, system |-> from_preset(p), generations |-> g] :
        p \in LindenmeyerSystemPreset, g \in 0..MaxGen}
    \cup {[selection |-> "Custom", system |-> s, generations |-> 0] :
        s \in WalkSystems \cup RoundTripSystems}
    \cup {[selection |-> "Custom", system |-> s, generations |-> g] :
        s \in RewriteSystems, g \in 0..MaxGen}

\* ---------------------------------------------------------------- state

VARIABLES
    selection,    \* the preset selected, or "Custom"
    system,       \* the LindenmeyerSystem: actions, angle_delta, axiom, rules
    generations,  \* how many times the rewriter runs
    pc,           \* where main is: "rewrite", "walk", "exit" or "panicked"
    gen,          \* generations completed by the outer loop of the rewriter
    string,       \* the current string
    string_new,   \* the string the running generation is building
    ri,           \* position in string of the next symbol to rewrite
    wi,           \* position in string of the next symbol to walk
    angle,        \* the heading, an f32
    position,     \* the turtle's position, a pair of isize
    stack,        \* the saved <<position, angle>> pairs
    data,         \* the path's commands, in the order they were appended
    visited,      \* history: <<position, angle>> at the moment each symbol was walked
    stdout,       \* the documents written to standard output
    panic_msg,    \* the message of the panic that ended the run, or ""
    input_buffer, \* the String read_line appends to
    line,         \* history: what the last call of read_line read
    stderr        \* the lines written to standard error

vars ==
    <<selection, system, generations, pc, gen, string, string_new, ri, wi,
      angle, position, stack, data, visited, stdout, panic_msg,
      input_buffer, line, stderr>>

dialogue_vars == <<input_buffer, line, stderr>>

input_vars == <<selection, system, generations, dialogue_vars>>

rewrite_vars == <<gen, string, string_new, ri>>

walk_vars == <<wi, angle, position, stack, data, visited>>

\* Data::move_to, an absolute move, and Data::line_by, a relative line.
MoveTo(p) == [command |-> "move_to", x |-> p[1], y |-> p[2]]

LineBy(v) == [command |-> "line_by", x |-> v[1], y |-> v[2]]

\* main after the system is built and before the rewriter's first iteration.
Init ==
    \E in \in Inputs :
        /\ selection = in.selection
        /\ system = in.system
        /\ generations = in.generations
        /\ pc = "rewrite"
        /\ gen = 0
        /\ string = in.system.axiom
        /\ string_new = <<>>
        /\ ri = 1
        /\ wi = 1
        /\ angle = 0
        /\ position = <<0, 0>>
        /\ stack = <<>>
        /\ data = <<MoveTo(<<0, 0>>)>>
        /\ visited = <<>>
        /\ stdout = <<>>
        /\ panic_msg = ""
        /\ input_buffer = KeyLine(in.selection)
        /\ line = KeyLine(in.selection)
        /\ stderr = Prompt

\* A panic unwinds main: nothing of the program runs after it.
Panic(msg) ==
    /\ pc' = "panicked"
    /\ panic_msg' = msg
    /\ UNCHANGED <<input_vars, rewrite_vars, walk_vars, stdout>>

\* -------------------------------------------------------------- rewriter

\* The outer loop taken as `for _ in 0..=generations`.
InGenerations_inclusive == gen <= generations

\* for _ in 0..generations
InGenerations == gen < generations

\* push_str putting the replacement in front of what was built so far.
push_str_prepend(s, replacement) == replacement \o s

\* push_str taken as an assignment: string_new = replacement.
push_str_overwrite(s, replacement) == replacement

\* The string a replacement is pushed onto: string_new.push_str(replacement).
push_str(s, replacement) == s \o replacement

\* One iteration of `for c in string.chars()` whose symbol has a rule.
RewriteChar ==
    /\ pc = "rewrite"
    /\ InGenerations
    /\ ri <= Len(string)
    /\ string[ri] \in DOMAIN system.rules
    /\ string_new' = push_str(string_new, system.rules[string[ri]])
    /\ ri' = ri + 1
    /\ UNCHANGED <<input_vars, pc, gen, string, walk_vars, stdout, panic_msg>>

\* system.rules[&c] for a symbol with no rule: HashMap's Index panics.
RewriteMissingRule ==
    /\ pc = "rewrite"
    /\ InGenerations
    /\ ri <= Len(string)
    /\ string[ri] \notin DOMAIN system.rules
    /\ Panic("no entry found for key")

\* The inner loop is over: string = string_new, and the next generation.
RewriteGeneration ==
    /\ pc = "rewrite"
    /\ InGenerations
    /\ ri > Len(string)
    /\ string' = string_new
    /\ string_new' = <<>>
    /\ ri' = 1
    /\ gen' = gen + 1
    /\ UNCHANGED <<input_vars, pc, walk_vars, stdout, panic_msg>>

\* The outer loop is over: the walk starts on the final string.
StartWalk ==
    /\ pc = "rewrite"
    /\ ~InGenerations
    /\ pc' = "walk"
    /\ UNCHANGED <<input_vars, rewrite_vars, walk_vars, stdout, panic_msg>>

\* ------------------------------------------------------------------ walk

\* The walk is at a symbol whose action is a.
At(a) ==
    /\ pc = "walk"
    /\ wi <= Len(string)
    /\ string[wi] \in DOMAIN system.actions
    /\ system.actions[string[wi]] = a

\* What every arm of the match does: the loop moves on to the next symbol.
Advance ==
    /\ wi' = wi + 1
    /\ visited' = Append(visited, <<position, angle>>)
    /\ UNCHANGED <<input_vars, pc, rewrite_vars, stdout, panic_msg>>

\* Action::DecrementAngle => angle -= angle_delta
WalkDecrementAngle ==
    /\ At("DecrementAngle")
    /\ angle' = F32Sub(angle, system.angle_delta)
    /\ UNCHANGED <<position, stack, data>>
    /\ Advance

\* Action::Forward handing line_by the new position instead of the offset.
WalkForward_line_by_position ==
    /\ At("Forward")
    /\ LET v == get_vector(angle, StepLength)
       IN  /\ position' = <<position[1] + v[1], position[2] + v[2]>>
           /\ data' = Append(data, LineBy(position'))
    /\ UNCHANGED <<angle, stack>>
    /\ Advance

\* Action::Forward
WalkForward ==
    /\ At("Forward")
    /\ LET v == get_vector(angle, StepLength)
       IN  /\ position' = <<position[1] + v[1], position[2] + v[2]>>
           /\ data' = Append(data, LineBy(v))
    /\ UNCHANGED <<angle, stack>>
    /\ Advance

\* Action::IncrementAngle taken as `angle = angle_delta`.
WalkIncrementAngle_assign ==
    /\ At("IncrementAngle")
    /\ angle' = system.angle_delta
    /\ UNCHANGED <<position, stack, data>>
    /\ Advance

\* Action::IncrementAngle => angle += angle_delta
WalkIncrementAngle ==
    /\ At("IncrementAngle")
    /\ angle' = F32Add(angle, system.angle_delta)
    /\ UNCHANGED <<position, stack, data>>
    /\ Advance

\* Action::None => {}
WalkNone ==
    /\ At("None")
    /\ UNCHANGED <<angle, position, stack, data>>
    /\ Advance

\* Action::Pop that restores the position and keeps the current angle.
WalkPop_position_only ==
    /\ At("Pop")
    /\ stack # <<>>
    /\ position' = stack[Len(stack)][1]
    /\ angle' = angle
    /\ stack' = SubSeq(stack, 1, Len(stack) - 1)
    /\ data' = Append(data, MoveTo(position'))
    /\ Advance

\* Action::Pop starting the path anew: data = Data::new().move_to(position).
WalkPop_new_data ==
    /\ At("Pop")
    /\ stack # <<>>
    /\ position' = stack[Len(stack)][1]
    /\ angle' = stack[Len(stack)][2]
    /\ stack' = SubSeq(stack, 1, Len(stack) - 1)
    /\ data' = <<MoveTo(position')>>
    /\ Advance

\* Action::Pop taking the oldest saved pair: stack.remove(0).
WalkPop_fifo ==
    /\ At("Pop")
    /\ stack # <<>>
    /\ position' = stack[1][1]
    /\ angle' = stack[1][2]
    /\ stack' = Tail(stack)
    /\ data' = Append(data, MoveTo(position'))
    /\ Advance

\* Action::Pop with a saved pair on the stack.
WalkPop ==
    /\ At("Pop")
    /\ stack # <<>>
    /\ position' = stack[Len(stack)][1]
    /\ angle' = stack[Len(stack)][2]
    /\ stack' = SubSeq(stack, 1, Len(stack) - 1)
    /\ data' = Append(data, MoveTo(position'))
    /\ Advance

\* Action::Pop on an empty stack taken as `if let Some(..) = stack.pop()`:
\* the symbol is skipped and the walk goes on.
WalkPopEmpty_skip ==
    /\ At("Pop")
    /\ stack = <<>>
    /\ UNCHANGED <<angle, position, stack, data>>
    /\ Advance

\* Action::Pop on an empty stack: stack.pop().expect("malformed system").
WalkPopEmpty ==
    /\ At("Pop")
    /\ stack = <<>>
    /\ Panic("malformed system")

\* Action::Push that also lifts the pen: data = data.move_to(position).
WalkPush_move_to ==
    /\ At("Push")
    /\ stack' = Append(stack, <<position, angle>>)
    /\ data' = Append(data, MoveTo(position))
    /\ UNCHANGED <<angle, position>>
    /\ Advance

\* Action::Push => stack.push((position, angle))
WalkPush ==
    /\ At("Push")
    /\ stack' = Append(stack, <<position, angle>>)
    /\ UNCHANGED <<angle, position, data>>
    /\ Advance

\* The lookup taken as `if let Some(action) = system.actions.get(&c)`: a
\* symbol with no action is skipped and the walk goes on.
WalkMissingAction_skip ==
    /\ pc = "walk"
    /\ wi <= Len(string)
    /\ string[wi] \notin DOMAIN system.actions
    /\ UNCHANGED <<angle, position, stack, data>>
    /\ Advance

\* system.actions[&c] for a symbol with no action: HashMap's Index panics.
WalkMissingAction ==
    /\ pc = "walk"
    /\ wi <= Len(string)
    /\ string[wi] \notin DOMAIN system.actions
    /\ Panic("no entry found for key")

\* ---------------------------------------------------------------- output

\* The Path and the Document main builds around data.
Document(d) ==
    [viewBox |-> <<-1000, -1000, 2000, 2000>>,
     path |-> [fill |-> "none", stroke |-> "black", stroke_width |-> 3, d |-> d]]

\* The walk is over: the document is built and written to standard output.
WriteDocument ==
    /\ pc = "walk"
    /\ wi > Len(string)
    /\ stdout' = Append(stdout, Document(data))
    /\ pc' = "exit"
    /\ UNCHANGED <<input_vars, rewrite_vars, walk_vars, panic_msg>>

Next ==
    \/ RewriteChar
    \/ RewriteMissingRule
    \/ RewriteGeneration
    \/ StartWalk
    \/ WalkDecrementAngle
    \/ WalkForward
    \/ WalkIncrementAngle
    \/ WalkNone
    \/ WalkPop
    \/ WalkPopEmpty
    \/ WalkPush
    \/ WalkMissingAction
    \/ WriteDocument

Spec == Init /\ [][Next]_vars

\* ------------------------------------------------- main from its first line

\* The system before from_preset has built it.
NoSystem == [actions |-> <<>>, angle_delta |-> 0, axiom |-> <<>>, rules |-> <<>>]

\* main after the prompt is printed and before the first read_line.
MainInit ==
    /\ selection = "Unselected"
    /\ system = NoSystem
    /\ generations = 0
    /\ pc = "select"
    /\ gen = 0
    /\ string = <<>>
    /\ string_new = <<>>
    /\ ri = 1
    /\ wi = 1
    /\ angle = 0
    /\ position = <<0, 0>>
    /\ stack = <<>>
    /\ data = <<>>
    /\ visited = <<>>
    /\ stdout = <<>>
    /\ panic_msg = ""
    /\ input_buffer = <<>>
    /\ line = <<>>
    /\ stderr = Prompt

\* Whether the loop may read once more.
MayRead == Len(stderr) - Len(Prompt) < MaxReads

\* One iteration of the selection loop that reaches `break`, and the lines up
\* to the rewriter: the trimmed buffer is "h", "p" or "t".
SelectPreset ==
    /\ pc = "select"
    /\ MayRead
    /\ \E l \in StdinLines :
          LET buffer == push_str(input_buffer, l)
          IN  /\ trim(buffer) \in DOMAIN PresetKeys
              /\ input_buffer' = buffer
              /\ line' = l
              /\ selection' = PresetKeys[trim(buffer)]
    /\ generations' = recommended_generations(selection')
    /\ system' = from_preset(selection')
    /\ angle' = 0
    /\ string' = system'.axiom
    /\ data' = <<MoveTo(<<0, 0>>)>>
    /\ position' = <<0, 0>>
    /\ stack' = <<>>
    /\ pc' = "rewrite"
    /\ UNCHANGED <<gen, string_new, ri, wi, visited, stdout, panic_msg, stderr>>

\* One iteration of the selection loop that takes the `_` arm.
SelectUnrecognized ==
    /\ pc = "select"
    /\ MayRead
    /\ \E l \in StdinLines :
          LET buffer == push_str(input_buffer, l)
          IN  /\ trim(buffer) \notin DOMAIN PresetKeys
              /\ line' = l
              /\ input_buffer' = clear(buffer)
    /\ stderr' = Append(stderr, "unrecognized. reinput:")
    /\ UNCHANGED <<selection, system, generations, pc, rewrite_vars, walk_vars,
                   stdout, panic_msg>>

\* read_line returns an Err (the input is not UTF-8): unwrap panics.
SelectReadError ==
    /\ pc = "select"
    /\ Panic("called Result::unwrap() on an Err value")

\* The replacements of symbols i..j of s pushed onto one another in order.
RECURSIVE RewriteRange(_, _, _, _)
RewriteRange(rules, s, i, j) ==
    IF i > j THEN <<>>
    ELSE IF i = j THEN push_str(<<>>, rules[s[i]])
    ELSE Bind((i + j) \div 2,
              LAMBDA m :
                push_str(RewriteRange(rules, s, i, m), RewriteRange(rules, s, m + 1, j)))

\* The position of the first symbol of s with no rule, 0 when all have one.
FirstMissing(rules, s) ==
    LET missing == {i \in DOMAIN s : s[i] \notin DOMAIN rules}
    IN  IF missing = {} THEN 0
        ELSE CHOOSE i \in missing : \A j \in missing : i <= j

\* One iteration of `for _ in 0..generations`, its inner loop included.
RewriteString ==
    /\ pc = "rewrite"
    /\ InGenerations
    /\ ri = 1
    /\ LET k == FirstMissing(system.rules, string)
       IN  IF k = 0
           THEN /\ string' = RewriteRange(system.rules, string, 1, Len(string))
                /\ gen' = gen + 1
                /\ UNCHANGED <<string_new, ri, pc, panic_msg>>
           ELSE /\ string_new' = RewriteRange(system.rules, string, 1, k - 1)
                /\ ri' = k
                /\ pc' = "panicked"
                /\ panic_msg' = "no entry found for key"
                /\ UNCHANGED <<gen, string>>
    /\ UNCHANGED <<input_vars, walk_vars, stdout>>

\* The body of `for c in string.chars()` of the walk for the symbol c, from
\* the turtle t: the turtle after it, and what it appends to the path and to
\* the history. A panic leaves everything as it is.
WalkSymbol(sys, t, c) ==
    LET moved(u, d) == [t |-> [u EXCEPT !.wi = t.wi + 1],
                        data |-> d,
                        visited |-> <<<<t.position, t.angle>>>>]
        panicked(msg) == [t |-> [t EXCEPT !.panic_msg = msg],
                          data |-> <<>>,
                          visited |-> <<>>]
    IN  IF c \notin DOMAIN sys.actions THEN panicked("no entry found for key")
        ELSE CASE sys.actions[c] = "DecrementAngle" ->
                    moved([t EXCEPT !.angle = F32Sub(t.angle, sys.angle_delta)], <<>>)
               [] sys.actions[c] = "Forward" ->
                    Bind(get_vector(t.angle, StepLength),
                         LAMBDA new :
                           LET old == t.position
                           IN  moved([t EXCEPT !.position =
                                           <<old[1] + new[1], old[2] + new[2]>>],
                                     <<LineBy(new)>>))
               [] sys.actions[c] = "IncrementAngle" ->
                    moved([t EXCEPT !.angle = F32Add(t.angle, sys.angle_delta)], <<>>)
               [] sys.actions[c] = "None" -> moved(t, <<>>)
               [] sys.actions[c] = "Pop" ->
                    IF t.stack = <<>> THEN panicked("malformed system")
                    ELSE LET top == t.stack[Len(t.stack)]
                         IN  moved([t EXCEPT !.position = top[1],
                                             !.angle = top[2],
                                             !.stack = SubSeq(t.stack, 1, Len(t.stack) - 1)],
                                   <<MoveTo(top[1])>>)
               [] sys.actions[c] = "Push" ->
                    moved([t EXCEPT !.stack = Append(t.stack, <<t.position, t.angle>>)], <<>>)

\* The turtles a walk goes through: what its loop reads and writes.
Turtles ==
    [wi : Nat, angle : Int, position : Int \X Int,
     stack : Seq((Int \X Int) \X Int), panic_msg : STRING]

\* The walk of symbols i..j of string from the turtle t, for <<t, i, j>>: one
\* symbol after the other in order, stopping at a panic.
WalkRange[a \in Turtles \X Nat \X Nat] ==
    IF a[2] = a[3] THEN WalkSymbol(system, a[1], string[a[2]])
    ELSE Bind(WalkRange[<<a[1], a[2], (a[2] + a[3]) \div 2>>],
              LAMBDA first :
                IF first.t.panic_msg # "" THEN first
                ELSE Bind(WalkRange[<<first.t, (a[2] + a[3]) \div 2 + 1, a[3]>>],
                          LAMBDA rest :
                            [t |-> rest.t,
                             data |-> first.data \o rest.data,
                             visited |-> first.visited \o rest.visited]))

\* The whole loop `for c in string.chars()` of the walk.
WalkString ==
    /\ pc = "walk"
    /\ wi = 1
    /\ wi <= Len(string)
    /\ \E walk \in {WalkRange[<<[wi |-> wi, angle |-> angle, position |-> position,
                                 stack |-> stack, panic_msg |-> ""],
                                1, Len(string)>>]} :
           /\ wi' = walk.t.wi
           /\ angle' = walk.t.angle
           /\ position' = walk.t.position
           /\ stack' = walk.t.stack
           /\ data' = data \o walk.data
           /\ visited' = visited \o walk.visited
           /\ panic_msg' = walk.t.panic_msg
           /\ pc' = IF walk.t.panic_msg = "" THEN "walk" ELSE "panicked"
    /\ UNCHANGED <<input_vars, rewrite_vars, stdout>>

MainNext ==
    \/ SelectPreset
    \/ SelectUnrecognized
    \/ SelectReadError
    \/ RewriteString
    \/ StartWalk
    \/ WalkString
    \/ WriteDocument

\* The program is sequential: once it has its input, it keeps running.
MainSpec ==
    /\ MainInit
    /\ [][MainNext]_vars
    /\ WF_vars(RewriteString \/ StartWalk \/ WalkString \/ WriteDocument)

\* ------------------------------------------------------- reading a string

\* The action of a symbol, "missing" when the actions mapping has no entry.
ActionOf(c) ==
    IF c \in DOMAIN system.actions THEN system.actions[c] ELSE "missing"

\* What a symbol adds to the number of Pushes minus the number of Pops.
Nesting(c) ==
    CASE ActionOf(c) = "Push" -> 1
      [] ActionOf(c) = "Pop" -> -1
      [] OTHER -> 0

\* Pushes minus Pops among the first n symbols of s.
RECURSIVE Depth(_, _)
Depth(s, n) == IF n = 0 THEN 0 ELSE Depth(s, n - 1) + Nesting(s[n])

\* From symbol i on and up to symbol n, starting at depth d, no prefix of s
\* has more Pops than Pushes.
RECURSIVE NoUnderflowFrom(_, _, _, _)
NoUnderflowFrom(s, i, n, d) ==
    IF i > n THEN TRUE
    ELSE d + Nesting(s[i]) >= 0 /\ NoUnderflowFrom(s, i + 1, n, d + Nesting(s[i]))

\* In every prefix of the first n symbols of s, Pushes are at least Pops.
NeverUnderflows(s, n) == NoUnderflowFrom(s, 1, n, 0)

\* How many of the first n symbols of s have action a.
RECURSIVE Count(_, _, _)
Count(s, n, a) ==
    IF n = 0 THEN 0
    ELSE Count(s, n - 1, a) + (IF ActionOf(s[n]) = a THEN 1 ELSE 0)

\* The symbols that occur in a string.
Symbols(s) == {s[i] : i \in DOMAIN s}

\* ---------------------------------------------------------------- claims

\* C1: a Pop met at the first prefix in which Pops outnumber Pushes aborts the
\* walk at that symbol: the step taken there is the panic "malformed system",
\* which leaves the path and the walk's position in the string as they were;
\* no prefix with more Pops than Pushes is ever walked, and nothing happens
\* after the panic.
C1_PopOnEmptyStackAborts ==
    /\ [](NeverUnderflows(string, wi - 1))
    /\ [][(/\ pc = "walk"
           /\ wi <= Len(string)
           /\ ActionOf(string[wi]) = "Pop"
           /\ Depth(string, wi - 1) = 0)
          => (/\ pc' = "panicked"
              /\ panic_msg' = "malformed system"
              /\ wi' = wi
              /\ data' = data
              /\ stdout' = <<>>)]_vars
    /\ [][pc = "panicked" => UNCHANGED vars]_vars

\* C1 witness: the walk was aborted by a Pop on an empty stack after it had
\* walked some symbols and appended to the path.
C1_Witness ==
    /\ pc = "panicked"
    /\ panic_msg = "malformed system"
    /\ wi > 1
    /\ Len(data) > 1
    /\ Len(data) = 1 + Count(string, wi - 1, "Forward") + Count(string, wi - 1, "Pop")

\* A replacement nests as its symbol does: it changes the number of Pushes
\* minus Pops by as much as the symbol, and no prefix of it goes lower than the
\* symbol itself does.
NestsAs(c, replacement) ==
    /\ Depth(replacement, Len(replacement)) = Nesting(c)
    /\ NoUnderflowFrom(replacement, 1, Len(replacement),
                       IF Nesting(c) < 0 THEN -Nesting(c) ELSE 0)

\* C2: for each preset and every generation count, the string of each
\* generation has at least as many Pushes as Pops in every prefix, and the
\* walk never panics on an empty stack; each rule of a preset keeps it so,
\* its replacement nesting as the symbol it replaces.
C2_PresetsNeverUnderflow ==
    selection \in LindenmeyerSystemPreset =>
        /\ panic_msg # "malformed system"
        /\ NeverUnderflows(string, Len(string))
        /\ \A c \in DOMAIN system.rules : NestsAs(c, system.rules[c])

\* C2 witness: a preset with brackets was rewritten MaxGen times and walked to
\* the end, Pops included.
C2_Witness ==
    /\ selection = "Plant"
    /\ generations = MaxGen
    /\ pc = "exit"
    /\ Count(string, Len(string), "Pop") > 1

\* The symbols reachable from a set of symbols by applying rules repeatedly.
RECURSIVE Reachable(_, _)
Reachable(rules, S) ==
    LET T == S \cup UNION {Symbols(rules[c]) : c \in S \cap DOMAIN rules}
    IN  IF T = S THEN S ELSE Reachable(rules, T)

\* C3: for each preset, every symbol reachable from the axiom by repeated rule
\* application has an entry in rules and in actions; the strings of every
\* generation hold only such symbols, and no lookup panics.
C3_PresetsAreComplete ==
    selection \in LindenmeyerSystemPreset =>
        LET known == DOMAIN system.rules \cap DOMAIN system.actions
            reach == Reachable(system.rules, Symbols(system.axiom))
        IN  /\ reach \subseteq known
            /\ Symbols(string) \cup Symbols(string_new) \subseteq reach
            /\ panic_msg # "no entry found for key"

\* C3 witness: a preset was rewritten at least once and walked to the end, so
\* both lookups were made for every symbol.
C3_Witness ==
    /\ selection \in LindenmeyerSystemPreset
    /\ gen >= 1
    /\ pc = "exit"
    /\ Cardinality(Symbols(string)) > 3

\* C4: with a generation count of 0 the rewriter leaves the axiom as it is:
\* the string that is walked is the axiom.
C4_ZeroGenerationsIsIdentity ==
    generations = 0 => string = system.axiom

\* C4 witness: a system whose rules would change the axiom was run with a
\* count of 0 and walked to the end.
C4_Witness ==
    /\ generations = 0
    /\ pc = "exit"
    /\ string # <<>>
    /\ string[1] \in DOMAIN system.rules
    /\ system.rules[string[1]] # <<string[1]>>

\* C5: with the Heighway Dragon grammar the string is "F+G" after one
\* generation and "F+G+F-G" after two.
C5_HeighwayDragonStrings ==
    (/\ system.axiom = <<"F">>
     /\ system.rules = ("F" :> <<"F", "+", "G">>) @@ ("G" :> <<"F", "-", "G">>)
                       @@ ("+" :> <<"+">>) @@ ("-" :> <<"-">>))
    => /\ gen = 1 => string = <<"F", "+", "G">>
       /\ gen = 2 => string = <<"F", "+", "G", "+", "F", "-", "G">>

\* C5 witness: the HeighwayDragon preset, which has that grammar, finished
\* its second generation.
C5_Witness ==
    /\ selection = "HeighwayDragon"
    /\ system.axiom = <<"F">>
    /\ system.rules = HeighwayDragonRules
    /\ gen = 2
    /\ Len(string) = 7

\* The Push that a Pop matches: the nearest Push to the left of the Pop at i
\* that no Pop in between has matched.
RECURSIVE PushBefore(_, _, _)
PushBefore(s, j, d) ==
    CASE ActionOf(s[j]) = "Push" -> IF d = 0 THEN j ELSE PushBefore(s, j - 1, d - 1)
      [] ActionOf(s[j]) = "Pop" -> PushBefore(s, j - 1, d + 1)
      [] OTHER -> PushBefore(s, j - 1, d)

MatchingPush(s, i) == PushBefore(s, i - 1, 0)

\* C6: right after a Pop, position and heading are those held when the
\* matching Push was walked, and the path's last command is a move to that
\* position.  Walking "A[B]C" with a zero angle_delta ends two steps from the
\* origin, where walking "AC" ends, and its path holds B's line and then the
\* move back to where the bracket was opened.
C6_PopRestoresStateAtPush ==
    /\ (wi > 1 /\ ActionOf(string[wi - 1]) = "Pop") =>
          LET saved == visited[MatchingPush(string, wi - 1)]
          IN  /\ <<position, angle>> = saved
              /\ data[Len(data)] = MoveTo(saved[1])
    /\ (system.actions = RoundTripActions /\ system.angle_delta = 0 /\ pc = "exit") =>
          /\ string = <<"A", "[", "B", "]", "C">> =>
                /\ position = <<2 * StepLength, 0>>
                /\ data = <<MoveTo(<<0, 0>>), LineBy(<<StepLength, 0>>),
                            LineBy(<<StepLength, 0>>), MoveTo(<<StepLength, 0>>),
                            LineBy(<<StepLength, 0>>)>>
          /\ string = <<"A", "C">> =>
                /\ position = <<2 * StepLength, 0>>
                /\ data = <<MoveTo(<<0, 0>>), LineBy(<<StepLength, 0>>),
                            LineBy(<<StepLength, 0>>)>>

\* C6 witness: a Pop has just restored a state that a turn and a Forward
\* inside the brackets had both changed.
C6_Witness ==
    /\ wi > 1
    /\ ActionOf(string[wi - 1]) = "Pop"
    /\ visited[wi - 1][1] # position
    /\ visited[wi - 1][2] # angle

\* The run is at a fatal condition: the symbol about to be rewritten has no
\* rule, or the symbol about to be walked has no action or is a Pop that no
\* Push is left for.
Fatal ==
    \/ /\ pc = "rewrite"
       /\ gen < generations
       /\ ri <= Len(string)
       /\ string[ri] \notin DOMAIN system.rules
    \/ /\ pc = "walk"
       /\ wi <= Len(string)
       /\ \/ string[wi] \notin DOMAIN system.actions
          \/ ActionOf(string[wi]) = "Pop" /\ Depth(string, wi - 1) = 0

\* C7: at a fatal condition the run panics and nothing follows the panic; a
\* panicked run has written nothing, and what is written is one document,
\* holding the whole path, after all generations were made and every symbol of
\* the final string was walked.
C7_NoDocumentAfterFailure ==
    /\ [][Fatal => (pc' = "panicked" /\ stdout' = <<>>)]_vars
    /\ [][pc = "panicked" => UNCHANGED vars]_vars
    /\ [](pc = "panicked" => stdout = <<>>)
    /\ [](stdout # <<>> =>
            /\ pc = "exit"
            /\ panic_msg = ""
            /\ gen = generations
            /\ wi = Len(string) + 1
            /\ \A i \in DOMAIN string : string[i] \in DOMAIN system.actions
            /\ NeverUnderflows(string, Len(string))
            /\ stdout = <<Document(data)>>)

\* C7 witness: the rewriter panicked on a symbol with no rule after it had
\* completed a generation, and nothing was written.
C7_Witness ==
    /\ pc = "panicked"
    /\ panic_msg = "no entry found for key"
    /\ gen >= 1
    /\ gen < generations
    /\ stdout = <<>>

\* Every replacement of the rules mapping has at least one symbol.
NoEmptyReplacement == \A c \in DOMAIN system.rules : Len(system.rules[c]) >= 1

\* C8: when no replacement is empty, the string a generation produces is at
\* least as long as the string it was produced from.
C8_LengthNeverShrinks ==
    [][(NoEmptyReplacement /\ gen' = gen + 1) => Len(string') >= Len(string)]_vars

\* C8 witness: a system with no empty replacement, other than the presets,
\* made two generations and its string is longer than its axiom.
C8_Witness ==
    /\ selection = "Custom"
    /\ NoEmptyReplacement
    /\ gen = 2
    /\ Len(string) > Len(system.axiom)

\* C10: walking "++F" with an angle_delta of PI / 2 from heading 0 takes the
\* Forward step at heading PI, with displacement (-StepLength, 0).
C10_AngleAccumulates ==
    (/\ string = <<"+", "+", "F">>
     /\ system.angle_delta = F32DivInt(PI, 2)
     /\ ActionOf("+") = "IncrementAngle"
     /\ ActionOf("F") = "Forward"
     /\ wi = 4)
    => /\ visited[3] = <<(<<0, 0>>), PI>>
       /\ data = <<MoveTo(<<0, 0>>), LineBy(<<-StepLength, 0>>)>>
       /\ position = <<-StepLength, 0>>

\* C10 witness: "++F" was walked to the end with an angle_delta of PI / 2.
C10_Witness ==
    /\ string = <<"+", "+", "F">>
    /\ system.angle_delta = F32DivInt(PI, 2)
    /\ pc = "exit"
    /\ angle = PI
    /\ position = <<-StepLength, 0>>

\* The current point of a path after its first n commands: the target of the
\* last move_to plus the offsets of the line_by commands that follow it.
RECURSIVE CurrentPoint(_, _)
CurrentPoint(d, n) ==
    IF n = 0 THEN <<0, 0>>
    ELSE IF d[n].command = "move_to" THEN <<d[n].x, d[n].y>>
    ELSE LET p == CurrentPoint(d, n - 1)
         IN  <<p[1] + d[n].x, p[2] + d[n].y>>

\* C11: the position the walk tracks is the current point of the path it has
\* emitted, so each Forward's line runs from the old position to the new one:
\* the path's point before the line is the position held when the Forward was
\* walked.
C11_PositionIsPathPoint ==
    /\ CurrentPoint(data, Len(data)) = position
    /\ (wi > 1 /\ ActionOf(string[wi - 1]) = "Forward") =>
          /\ data[Len(data)].command = "line_by"
          /\ CurrentPoint(data, Len(data) - 1) = visited[wi - 1][1]

\* C11 witness: a Forward was walked from a position other than the origin
\* that a Pop had moved the path to.
C11_Witness ==
    /\ wi > 1
    /\ ActionOf(string[wi - 1]) = "Forward"
    /\ visited[wi - 1][1] # <<0, 0>>
    /\ Len(data) > 2
    /\ data[Len(data) - 1].command = "move_to"

\* The commands the first n symbols of s ask for, in order: a line_by for each
\* Forward, a move_to for each Pop, nothing for any other symbol.
RECURSIVE CommandsOf(_, _)
CommandsOf(s, n) ==
    IF n = 0 THEN <<>>
    ELSE CASE ActionOf(s[n]) = "Forward" -> Append(CommandsOf(s, n - 1), "line_by")
           [] ActionOf(s[n]) = "Pop" -> Append(CommandsOf(s, n - 1), "move_to")
           [] OTHER -> CommandsOf(s, n - 1)

\* C12: the path starts with the move to the origin and then holds, in the
\* order of the symbols walked, one line_by per Forward and one move_to per
\* Pop and nothing else, 1 + #Forward + #Pop commands in all; a step never
\* changes or removes a command that is already in the path.
C12_PathIsAppendOnly ==
    /\ [](/\ data[1] = MoveTo(<<0, 0>>)
          /\ [i \in DOMAIN data |-> data[i].command]
               = <<"move_to">> \o CommandsOf(string, wi - 1)
          /\ Len(data) = 1 + Count(string, wi - 1, "Forward")
                           + Count(string, wi - 1, "Pop"))
    /\ [][/\ Len(data') >= Len(data)
          /\ Len(data') <= Len(data) + 1
          /\ SubSeq(data', 1, Len(data)) = data]_vars

\* C12 witness: the path holds lines and moves added by Forwards and Pops,
\* while symbols that add nothing were walked too.
C12_Witness ==
    /\ pc = "exit"
    /\ Count(string, Len(string), "Forward") > 1
    /\ Count(string, Len(string), "Pop") > 1
    /\ Len(data) < Len(string)
    /\ Len(data) = 1 + Count(string, Len(string), "Forward")
                     + Count(string, Len(string), "Pop")

\* Symbol j of s is a Push that no Pop among the symbols after it, up to
\* symbol n, has matched.
IsOpenPush(s, j, n) ==
    /\ ActionOf(s[j]) = "Push"
    /\ NoUnderflowFrom(s, j + 1, n, 0)

\* C13: the stack is empty until the walk starts; after any walked prefix its
\* depth is the number of Pushes minus the number of Pops of the prefix, and
\* it holds, oldest first, the position and heading of the moment each Push
\* still unmatched was walked: a Push adds one such entry on top and a Pop
\* removes the newest.
C13_StackIsLifo ==
    /\ pc = "rewrite" => stack = <<>>
    /\ Len(stack) = Depth(string, wi - 1)
    /\ \A j \in 1..(wi - 1) :
          IsOpenPush(string, j, wi - 1) => stack[Depth(string, j)] = visited[j]

\* C13 witness: two different states are saved on the stack, and a Pop has
\* already removed an entry.
C13_Witness ==
    /\ Len(stack) >= 2
    /\ stack[1] # stack[2]
    /\ Count(string, wi - 1, "Pop") >= 1

\* C14: a step of the walk changes only what its action is to change.
\* IncrementAngle and DecrementAngle change the heading, by angle_delta up or
\* down, and leave position, stack and path; Push adds to the stack and leaves
\* heading, position and path; None leaves all four; Forward leaves heading
\* and stack.  No step of the walk touches the system, the string or the
\* output.
C14_ActionsChangeOnlyTheirOwn ==
    [][(pc = "walk" /\ wi' = wi + 1) =>
         LET a == ActionOf(string[wi])
         IN  /\ a = "IncrementAngle" =>
                   /\ angle' = F32Add(angle, system.angle_delta)
                   /\ UNCHANGED <<position, stack, data>>
             /\ a = "DecrementAngle" =>
                   /\ angle' = F32Sub(angle, system.angle_delta)
                   /\ UNCHANGED <<position, stack, data>>
             /\ a = "Push" =>
                   /\ Len(stack') = Len(stack) + 1
                   /\ UNCHANGED <<angle, position, data>>
             /\ a = "None" => UNCHANGED <<angle, position, stack, data>>
             /\ a = "Forward" => UNCHANGED <<angle, stack>>
             /\ UNCHANGED <<selection, system, generations, string, stdout>>]_vars

\* C14 witness: a Push has just been walked at a heading and a position that
\* earlier symbols had changed, with lines already in the path.
C14_Witness ==
    /\ wi > 1
    /\ ActionOf(string[wi - 1]) = "Push"
    /\ angle # 0
    /\ position # <<0, 0>>
    /\ Len(data) > 1
    /\ stack[Len(stack)] = <<position, angle>>

\* The replacements of symbols i..n of s, one after the other in the order
\* of the symbols.
RECURSIVE Replacements(_, _, _)
Replacements(s, i, n) ==
    IF i > n THEN <<>>
    ELSE system.rules[s[i]] \o Replacements(s, i + 1, n)

\* C15: a generation rewrites symbol by symbol and keeps the order: what it
\* has built after any number of symbols is the replacements of those symbols
\* in order, which for every way of splitting them in two is what it builds
\* from the first part followed by what it builds from the second; and the
\* next string is the replacements of all symbols of the current one.
C15_RewriteKeepsOrder ==
    /\ [](/\ string_new = Replacements(string, 1, ri - 1)
          /\ \A k \in 0..(ri - 1) :
                string_new = Replacements(string, 1, k)
                             \o Replacements(string, k + 1, ri - 1))
    /\ [][gen' = gen + 1 => string' = Replacements(string, 1, Len(string))]_vars

\* C15 witness: a generation has rewritten a string of several symbols whose
\* first and last replacements differ.
C15_Witness ==
    /\ pc = "rewrite"
    /\ Len(string) >= 2
    /\ ri = Len(string) + 1
    /\ system.rules[string[1]] # system.rules[string[Len(string)]]
    /\ string_new # string

\* The characters of a panic message.
MessageChars(msg) ==
    CASE msg = "no entry found for key" ->
           <<"n", "o", " ", "e", "n", "t", "r", "y", " ", "f", "o", "u", "n",
             "d", " ", "f", "o", "r", " ", "k", "e", "y">>
      [] msg = "malformed system" ->
           <<"m", "a", "l", "f", "o", "r", "m", "e", "d", " ", "s", "y", "s",
             "t", "e", "m">>
      [] OTHER -> <<>>

\* The symbol c occurs in the panic message.
Names(msg, c) == \E i \in DOMAIN MessageChars(msg) : MessageChars(msg)[i] = c

\* The symbol about to be rewritten has no rule, or the symbol about to be
\* walked has no action.
MissingEntry ==
    \/ /\ pc = "rewrite"
       /\ InGenerations
       /\ ri <= Len(string)
       /\ string[ri] \notin DOMAIN system.rules
    \/ /\ pc = "walk"
       /\ wi <= Len(string)
       /\ string[wi] \notin DOMAIN system.actions

\* The run aborts at the first symbol with no entry: every symbol before it
\* in the pass had one, the step at it is the panic, the panic changes nothing
\* of the strings, the turtle or the output, and nothing follows it.
AbortsAtFirstMissingEntry ==
    /\ [](pc = "rewrite" => \A i \in 1..(ri - 1) : string[i] \in DOMAIN system.rules)
    /\ [](pc = "walk" => \A i \in 1..(wi - 1) : string[i] \in DOMAIN system.actions)
    /\ [][MissingEntry =>
            /\ pc' = "panicked"
            /\ UNCHANGED <<rewrite_vars, walk_vars, stdout>>]_vars
    /\ [][pc = "panicked" => UNCHANGED vars]_vars

\* The message of the panic at a symbol with no entry names that symbol.
DiagnosticNamesSymbol ==
    [][MissingEntry => Names(panic_msg', IF pc = "rewrite" THEN string[ri] ELSE string[wi])]_vars

\* C16: a symbol with no rule (rewriter) or no action (walk) aborts the run
\* at the first such symbol, with a diagnostic that identifies the symbol,
\* and no later symbol is rewritten or walked.
C16_MissingSymbolIsDiagnosed ==
    /\ AbortsAtFirstMissingEntry
    /\ DiagnosticNamesSymbol

\* The turtle before the walk's first symbol.
TurtleAtStart ==
    [wi |-> 1, angle |-> 0, position |-> <<0, 0>>, stack |-> <<>>, panic_msg |-> ""]

\* The run panicked in the rewriter.
PanickedInRewrite ==
    /\ pc = "panicked"
    /\ gen < generations
    /\ ri <= Len(string)
    /\ string[ri] \notin DOMAIN system.rules

\* The whole-loop steps RewriteString and WalkString do what the per-symbol
\* steps of the same loops do: a generation made symbol by symbol ends in the
\* string RewriteString makes, or in its panic, and a walk made symbol by
\* symbol ends in the turtle, path and history WalkString makes, or in its
\* panic.
WholeLoopsAgreeWithSteps ==
    /\ [][gen' = gen + 1 =>
            /\ FirstMissing(system.rules, string) = 0
            /\ string' = RewriteRange(system.rules, string, 1, Len(string))]_vars
    /\ [](PanickedInRewrite =>
            /\ ri = FirstMissing(system.rules, string)
            /\ string_new = RewriteRange(system.rules, string, 1, ri - 1)
            /\ panic_msg = "no entry found for key")
    /\ []((pc \in {"exit", "panicked"} /\ ~PanickedInRewrite /\ string # <<>>) =>
            LET walk == WalkRange[<<TurtleAtStart, 1, Len(string)>>]
            IN  /\ walk.t = [wi |-> wi, angle |-> angle, position |-> position,
                             stack |-> stack, panic_msg |-> panic_msg]
                /\ data = <<MoveTo(<<0, 0>>)>> \o walk.data
                /\ visited = walk.visited
                /\ pc = "exit" <=> walk.t.panic_msg = "")

\* What the history says of symbol i of the walked string: the turtle moved
\* from its state at symbol i to its state after it (at symbol i + 1, or at
\* the end of the walk) as the action of that one symbol says. (Where a Pop
\* takes the turtle back to is the matter of C6 and C13.)
WalkedOnce(i) ==
    LET a == ActionOf(string[i])
        at == visited[i]
        after == IF i < Len(string) THEN visited[i + 1] ELSE <<position, angle>>
    IN  /\ a = "Forward" =>
              LET v == get_vector(at[2], StepLength)
              IN  after = <<<<at[1][1] + v[1], at[1][2] + v[2]>>, at[2]>>
        /\ a = "IncrementAngle" => after = <<at[1], F32Add(at[2], system.angle_delta)>>
        /\ a = "DecrementAngle" => after = <<at[1], F32Sub(at[2], system.angle_delta)>>
        /\ a \in {"None", "Push"} => after = at

\* C17: once a preset is selected the run reaches its exit; the rewriter
\* makes exactly 16 generations for HeighwayDragon, 6 for Plant and 7 for
\* Tree, one at a time; the walk takes every symbol of the final string once,
\* from the first to the last; and one document is written, once, after which
\* nothing happens.
C17_PipelineTerminates ==
    /\ (selection \in LindenmeyerSystemPreset) ~> (pc = "exit")
    /\ [](selection \in LindenmeyerSystemPreset =>
            /\ pc # "panicked"
            /\ selection = "HeighwayDragon" => generations = 16
            /\ selection = "Plant" => generations = 6
            /\ selection = "Tree" => generations = 7
            /\ gen <= generations
            /\ pc \in {"walk", "exit"} => gen = generations)
    /\ [][gen' # gen => (pc = "rewrite" /\ gen' = gen + 1)]_vars
    /\ [][wi' # wi => (pc = "walk" /\ wi = 1 /\ wi' = Len(string) + 1 /\ string' = string)]_vars
    /\ [](pc = "exit" =>
            /\ wi = Len(string) + 1
            /\ Len(visited) = Len(string)
            /\ visited[1] = <<<<0, 0>>, 0>>
            /\ \A i \in 1..Len(string) : WalkedOnce(i)
            /\ stdout = <<Document(data)>>)
    /\ [](pc # "exit" => stdout = <<>>)
    /\ [][pc = "exit" => UNCHANGED vars]_vars

\* C17 witness: Tree was selected after a line that was not recognized, its
\* seven generations were made, all 1084 symbols were walked, and the
\* document was written.
C17_Witness ==
    /\ pc = "exit"
    /\ selection = "Tree"
    /\ Len(stderr) > Len(Prompt)
    /\ gen = 7
    /\ Len(string) = 1084
    /\ Len(visited) = 1084
    /\ Len(stdout) = 1

\* C18: for each preset and every generation count the walk of the string of
\* that generation ends with the stack empty. The axiom holds no bracket and
\* every rule's replacement has as many Pushes more than Pops as the symbol it
\* replaces, so the string of every generation has as many Pops as Pushes;
\* while it is walked the stack holds one entry for each Push of the walked
\* prefix that no Pop of the prefix has matched, and none at the end.
C18_PresetsEndWithEmptyStack ==
    selection \in LindenmeyerSystemPreset =>
        /\ Depth(system.axiom, Len(system.axiom)) = 0
        /\ \A c \in DOMAIN system.rules :
              Depth(system.rules[c], Len(system.rules[c])) = Nesting(c)
        /\ Depth(string, Len(string)) = 0
        /\ pc \in {"walk", "exit"} => Len(stack) = Depth(string, wi - 1)
        /\ (pc = "exit" \/ (pc = "walk" /\ wi > Len(string))) => stack = <<>>

\* C18 witness: the walk of the MaxGen-th string of Tree has ended, with
\* several Pushes walked and the stack empty.
C18_Witness ==
    /\ selection = "Tree"
    /\ generations = MaxGen
    /\ gen = MaxGen
    /\ pc = "walk"
    /\ wi = Len(string) + 1
    /\ Count(string, Len(string), "Push") > 1
    /\ stack = <<>>

\* C19: the selection loop is left, other than by a panic, only by reading a
\* line whose trimmed content is "h", "p" or "t", and that line selects
\* HeighwayDragon, Plant or Tree; a line read before it, whose trimmed content
\* is none of these, writes the re-prompt and leaves the buffer empty for the
\* next read, so that what a read does is decided by the line it reads and by
\* nothing read before; nothing is read after the loop; and the rewriter runs
\* only for the preset named by the last line read.
C19_SelectionDependsOnLineAlone ==
    /\ [](pc = "select" =>
            /\ input_buffer = <<>>
            /\ selection = "Unselected"
            /\ gen = 0
            /\ string = <<>>)
    /\ [][(pc = "select" /\ pc' # "panicked") =>
            IF trim(line') \in DOMAIN PresetKeys
            THEN /\ pc' = "rewrite"
                 /\ selection' = PresetKeys[trim(line')]
                 /\ input_buffer' = line'
                 /\ stderr' = stderr
            ELSE /\ pc' = "select"
                 /\ selection' = selection
                 /\ input_buffer' = <<>>
                 /\ stderr' = Append(stderr, "unrecognized. reinput:")]_vars
    /\ [][pc # "select" =>
            /\ pc' # "select"
            /\ selection' = selection
            /\ UNCHANGED dialogue_vars]_vars
    /\ []((pc \in {"rewrite", "walk", "exit"} \/ gen > 0) =>
            /\ trim(line) \in DOMAIN PresetKeys
            /\ selection = PresetKeys[trim(line)]
            /\ system = from_preset(selection))

\* C19 witness: Plant was selected by the line " p " read after one line that
\* was not recognized, and the rewriter has made a generation.
C19_Witness ==
    /\ selection = "Plant"
    /\ line = <<" ", "p", " ", "\n">>
    /\ input_buffer = line
    /\ stderr = Prompt \o <<"unrecognized. reinput:">>
    /\ pc = "rewrite"
    /\ gen = 1

=============================================================================
